---- MODULE Spec2Model ----
(***************************************************************************)
(* Model of sentry/integrations/jira_server/client.py: the OAuth1 setup    *)
(* client (JiraServerSetupClient) and the authenticated client             *)
(* (JiraServerClient) with its cache-aside read, get_cached.               *)
(*                                                                         *)
(* Conventions.  A Python string is a sequence of parts (characters or     *)
(* opaque chunks), so that formatting and concatenation are \o; the empty  *)
(* string is <<>> and None is the sentinel NONE.  A JSON list is a         *)
(* sequence of items.  A dict is a function.  Every client method is an    *)
(* operator that takes the transport's outcome for the one request it may  *)
(* issue and yields [calls, result, cache]: the network calls it issued,   *)
(* what the caller gets (a value or an exception) and the cache store      *)
(* after it.  An action applies one method and records it in last,         *)
(* together with a snapshot of the state the method ran in.                *)
(***************************************************************************)
EXTENDS Integers, Sequences, FiniteSets, TLC

VARIABLES
    now,            \* the cache store's clock, in seconds
    cache,          \* the process-wide cache store: key -> [value, expires]
    default_identity, \* installation -> identity.data (the stored credentials)
    hist,           \* history: <<full_url, base_url>> -> last response get_cached stored
    last,           \* the last client call: method, arguments, calls, result, pre-state
    query,          \* the query string handed to search_issues next
    pc,             \* concurrent get_cached callers: position in get_cached
    cached_result,  \* concurrent get_cached callers: the local cached_result
    returned        \* concurrent get_cached callers: what the caller got

vars == <<now, cache, default_identity, hist, last, query, pc, cached_result, returned>>

----------------------------------------------------------------------------
(* Bounds *)

MaxTime == 90
TickStep == 30
MaxQueryLen == 4

----------------------------------------------------------------------------
(* Python values *)

NONE == <<"<None>">>

\* `not x` for a string, a list or None (client.py:57, client.py:151)
Truthy(x) == x # NONE /\ x # <<>>

Return(v) == [raised |-> FALSE, value |-> v, exc |-> "-"]
Raise(e) == [raised |-> TRUE, value |-> NONE, exc |-> e]

ApiError_MissingVerifier == "ApiError('Missing OAuth token verifier')"
KeyError == "KeyError"

RECURSIVE Split(_, _)
\* str.split on any of the separator parts seps
Split(s, seps) ==
    IF s = <<>> THEN << <<>> >>
    ELSE LET r == Split(Tail(s), seps) IN
         IF Head(s) \in seps THEN << <<>> >> \o r
         ELSE << <<Head(s)>> \o Head(r) >> \o Tail(r)

RECURSIVE IndexOf(_, _, _)
\* first index >= i of part c in s, or 0
IndexOf(s, c, i) ==
    IF i > Len(s) THEN 0
    ELSE IF s[i] = c THEN i
    ELSE IndexOf(s, c, i + 1)

RECURSIVE parse_pairs(_)
\* urlparse.parse_qsl (Python 2, which splits on '&' and ';') over the split
\* pieces, keep_blank_values and strict_parsing both off: a piece without
\* '=' or with a blank value is dropped
parse_pairs(pieces) ==
    IF pieces = <<>> THEN <<>>
    ELSE LET nv == Head(pieces)
             eq == IndexOf(nv, "=", 1)
             rest == parse_pairs(Tail(pieces))
         IN IF nv = <<>> \/ eq = 0 THEN rest
            ELSE IF eq = Len(nv) THEN rest
            ELSE << <<SubSeq(nv, 1, eq - 1), SubSeq(nv, eq + 1, Len(nv))>> >> \o rest

parse_qsl(qs) == parse_pairs(Split(qs, {"&", ";"}))

RECURSIVE dict(_)
\* dict(pairs): a later pair overrides an earlier one with the same name
dict(pairs) ==
    IF pairs = <<>> THEN [k \in {} |-> <<>>]
    ELSE LET p == pairs[Len(pairs)]
             d == dict(SubSeq(pairs, 1, Len(pairs) - 1))
         IN [k \in DOMAIN d \cup {p[1]} |-> IF k = p[1] THEN p[2] ELSE d[k]]

----------------------------------------------------------------------------
(* OAuth1 auth objects and requests *)

SIGNATURE_RSA == "RSA-SHA1"

OAuth1(client_key, rsa_key, resource_owner_key, resource_owner_secret, verifier) ==
    [client_key |-> client_key, rsa_key |-> rsa_key,
     resource_owner_key |-> resource_owner_key,
     resource_owner_secret |-> resource_owner_secret,
     verifier |-> verifier,
     signature_method |-> SIGNATURE_RSA, signature_type |-> "auth_header"]

\* auth=None: the request goes out unsigned
Unsigned ==
    [client_key |-> NONE, rsa_key |-> NONE, resource_owner_key |-> NONE,
     resource_owner_secret |-> NONE, verifier |-> NONE,
     signature_method |-> "-", signature_type |-> "-"]

NoParams == [k \in {} |-> <<>>]
NoData == [name |-> NONE, url |-> NONE, events |-> <<>>]

\* **kwargs of get/post/request; has_auth is `'auth' in kwargs`
Kwargs(has_auth, auth, params, data, allow_text) ==
    [has_auth |-> has_auth, auth |-> auth, params |-> params, data |-> data,
     allow_text |-> allow_text]

NoKwargs == Kwargs(FALSE, Unsigned, NoParams, NoData, FALSE)

\* transport outcomes: a response (json for a parsed body, text for a raw
\* one) or the typed error of the HTTP layer
OkJson(j) == [ok |-> TRUE, json |-> j, text |-> <<>>, error |-> "-"]
OkText(t) == [ok |-> TRUE, json |-> <<>>, text |-> t, error |-> "-"]
Failed(e) == [ok |-> FALSE, json |-> <<>>, text |-> <<>>, error |-> e]

TransportErrors == {"ApiError(503)", "ApiUnauthorized(401)"}
JsonResponses == {<<>>, <<"r1">>, <<"r2">>}
TextResponses ==
    { <<"oauth_token", "=", "abc", "&", "oauth_token_secret", "=", "xyz">>,
      <<"oauth_token", "=", "abc", "&", "oauth_token_secret", "=">>,
      <<"oauth_token", "=", "old", ";", "oauth_token_secret", "=", "xyz",
        "&", "oauth_token", "=", "abc">>,
      <<"oauth_problem", "=", "token_rejected", "&", "junk">> }

JsonOutcomes == {OkJson(j) : j \in JsonResponses} \cup {Failed(e) : e \in TransportErrors}
TextOutcomes == {OkText(t) : t \in TextResponses} \cup {Failed(e) : e \in TransportErrors}

\* path.startswith('/')
PathParts ==
    {"/rest/api/2/issue/createmeta", "/rest/api/2/priority", "/rest/api/2/project/",
     "/rest/api/2/search/", "/rest/api/2/issue/", "/rest/webhooks/1.0/webhook"}
IsPath(path) == path # <<>> /\ Head(path) \in PathParts

\* ApiClient._request: one network call; the response or the transport's error
_request(self, method, path, kwargs, o) ==
    LET full_url == IF IsPath(path) THEN <<self.base_url>> \o path ELSE path
        call == [method |-> method, url |-> full_url, auth |-> kwargs.auth,
                 params |-> kwargs.params, data |-> kwargs.data]
    IN [calls |-> <<call>>,
        result |-> IF o.ok THEN Return(IF kwargs.allow_text THEN o.text ELSE o.json)
                   ELSE Raise(o.error)]

NoCall(result) == [calls |-> <<>>, result |-> result]

----------------------------------------------------------------------------
(* JiraServerSetupClient *)

JiraServerSetupClient(base_url, consumer_key, private_key, verify_ssl) ==
    [cls |-> "JiraServerSetupClient", base_url |-> base_url,
     consumer_key |-> consumer_key, private_key |-> private_key,
     verify_ssl |-> verify_ssl]

request_token_url(base_url) == <<base_url, "/plugins/servlet/oauth/request-token">>
access_token_url(base_url) == <<base_url, "/plugins/servlet/oauth/access-token">>
authorize_url(base_url, token) ==
    <<base_url, "/plugins/servlet/oauth/authorize?oauth_token=">> \o token

\* as JiraServerSetupClient_request, but the consumer-only signature replaces
\* whatever the caller passed
JiraServerSetupClient_request_always(self, method, path, kwargs, o) ==
    _request(self, method, path,
             [kwargs EXCEPT !.has_auth = TRUE,
                            !.auth = OAuth1(self.consumer_key, self.private_key,
                                            NONE, NONE, NONE)], o)

\* JiraServerSetupClient.request: add the consumer-only signature when the
\* caller passed no auth
JiraServerSetupClient_request(self, method, path, kwargs, o) ==
    IF ~kwargs.has_auth
    THEN _request(self, method, path,
                  [kwargs EXCEPT !.has_auth = TRUE,
                                 !.auth = OAuth1(self.consumer_key, self.private_key,
                                                 NONE, NONE, NONE)], o)
    ELSE _request(self, method, path, kwargs, o)

----------------------------------------------------------------------------
(* JiraServerClient: installation, identity, request *)

CredFields == {"consumer_key", "private_key", "access_token", "access_token_secret"}

Installations == {"A", "B", "C"}

\* installation.model.metadata: A and B are installations on the same Jira
\* Server, C is on another one
InstallationMetadata ==
    [i \in Installations |->
        [verify_ssl |-> TRUE,
         base_url |-> IF i = "C" THEN "https://jira.other.com"
                      ELSE "https://jira.example.com"]]

metadata(self) == InstallationMetadata[self.installation]

\* as identity, but the credentials are those read when the client was built
identity_at_construction(self) ==
    [data |-> [consumer_key |-> <<"ck">>, private_key |-> <<"pem">>,
               access_token |-> <<"at1">>, access_token_secret |-> <<"ats1">>]]

\* installation.default_identity, read on every use
identity(self) == [data |-> default_identity[self.installation]]

JiraServerClient(installation) ==
    LET self0 == [installation |-> installation] IN
    [cls |-> "JiraServerClient", installation |-> installation,
     verify_ssl |-> metadata(self0).verify_ssl, base_url |-> metadata(self0).base_url]

\* JiraServerClient.request: sign with the identity's four credentials when
\* the caller passed no auth; a missing credential is a KeyError
JiraServerClient_request(self, method, path, kwargs, o) ==
    IF ~kwargs.has_auth
    THEN LET auth_data == identity(self).data IN
         IF ~(CredFields \subseteq DOMAIN auth_data) THEN NoCall(Raise(KeyError))
         ELSE _request(self, method, path,
                       [kwargs EXCEPT !.has_auth = TRUE,
                                      !.auth = OAuth1(auth_data.consumer_key,
                                                      auth_data.private_key,
                                                      auth_data.access_token,
                                                      auth_data.access_token_secret,
                                                      NONE)], o)
    ELSE _request(self, method, path, kwargs, o)

\* self.request(...): the override of the client's class
request(self, method, path, kwargs, o) ==
    IF self.cls = "JiraServerSetupClient"
    THEN JiraServerSetupClient_request(self, method, path, kwargs, o)
    ELSE JiraServerClient_request(self, method, path, kwargs, o)

\* ApiClient.get / ApiClient.post
get(self, path, kwargs, o) == request(self, "GET", path, kwargs, o)
post(self, path, kwargs, o) == request(self, "POST", path, kwargs, o)

----------------------------------------------------------------------------
(* JiraServerSetupClient methods *)

get_request_token(self, o) ==
    LET url == request_token_url(self.base_url)
        resp == post(self, url, Kwargs(FALSE, Unsigned, NoParams, NoData, TRUE), o)
    IN IF resp.result.raised THEN resp
       ELSE [calls |-> resp.calls, result |-> Return(dict(parse_qsl(resp.result.value)))]

get_authorize_url(self, request_token) ==
    IF <<"oauth_token">> \notin DOMAIN request_token THEN NoCall(Raise(KeyError))
    ELSE NoCall(Return(authorize_url(self.base_url, request_token[<<"oauth_token">>])))

\* as get_access_token, but only None counts as a missing verifier
get_access_token_none_only(self, request_token, verifier, o) ==
    IF verifier = NONE THEN NoCall(Raise(ApiError_MissingVerifier))
    ELSE IF ~({<<"oauth_token">>, <<"oauth_token_secret">>} \subseteq DOMAIN request_token)
    THEN NoCall(Raise(KeyError))
    ELSE LET auth == OAuth1(self.consumer_key,
                            self.private_key,
                            request_token[<<"oauth_token">>],
                            request_token[<<"oauth_token_secret">>],
                            verifier)
             url == access_token_url(self.base_url)
             resp == post(self, url, Kwargs(TRUE, auth, NoParams, NoData, TRUE), o)
         IN IF resp.result.raised THEN resp
            ELSE [calls |-> resp.calls,
                  result |-> Return(dict(parse_qsl(resp.result.value)))]

get_access_token(self, request_token, verifier, o) ==
    IF ~Truthy(verifier) THEN NoCall(Raise(ApiError_MissingVerifier))
    ELSE IF ~({<<"oauth_token">>, <<"oauth_token_secret">>} \subseteq DOMAIN request_token)
    THEN NoCall(Raise(KeyError))
    ELSE LET auth == OAuth1(self.consumer_key,
                            self.private_key,
                            request_token[<<"oauth_token">>],
                            request_token[<<"oauth_token_secret">>],
                            verifier)
             url == access_token_url(self.base_url)
             resp == post(self, url, Kwargs(TRUE, auth, NoParams, NoData, TRUE), o)
         IN IF resp.result.raised THEN resp
            ELSE [calls |-> resp.calls,
                  result |-> Return(dict(parse_qsl(resp.result.value)))]

\* jwt.encode({'id': external_id}, secret): the claims, signed with secret
jwt_encode(external_id, secret) == <<"jwt{id:", external_id, "}signed-with:", secret>>

\* reverse('sentry-extensions-jiraserver-issue-updated', kwargs={'token': token})
reverse(token) == <<"/extensions/jira-server/issue-updated/">> \o token \o <<"/">>

absolute_uri(path) == <<"https://sentry.example.com">> \o path

create_issue_webhook(self, external_id, secret, credentials, o) ==
    IF ~(CredFields \subseteq DOMAIN credentials) THEN NoCall(Raise(KeyError))
    ELSE LET auth == OAuth1(credentials.consumer_key,
                            credentials.private_key,
                            credentials.access_token,
                            credentials.access_token_secret,
                            NONE)
             token == jwt_encode(external_id, secret)
             path == reverse(token)
             data == [name |-> <<"Sentry Issue Sync">>,
                      url |-> absolute_uri(path),
                      events |-> <<"jira:issue_created", "jira:issue_updated">>]
         IN post(self, <<"/rest/webhooks/1.0/webhook">>,
                 Kwargs(TRUE, auth, NoParams, data, FALSE), o)

----------------------------------------------------------------------------
(* JiraServerClient methods *)

META_URL == <<"/rest/api/2/issue/createmeta">>
PRIORITIES_URL == <<"/rest/api/2/priority">>
VERSIONS_URL(project) == <<"/rest/api/2/project/", project, "/versions">>
SEARCH_URL == <<"/rest/api/2/search/">>
ISSUE_URL(issue_id) == <<"/rest/api/2/issue/", issue_id>>

TTL == 60

\* md5(*bits).hexdigest(): the digest of the bits joined with ':', taken to
\* be collision-free
md5_hexdigest(full_url, base_url) == <<"md5(">> \o full_url \o <<":", base_url, ")">>

\* as CacheKey, but the key also names the installation
CacheKey_per_installation(self, full_url) ==
    <<"sentry-jira-server:">> \o md5_hexdigest(full_url, self.base_url)
        \o <<self.installation>>

CacheKey(self, full_url) ==
    <<"sentry-jira-server:">> \o md5_hexdigest(full_url, self.base_url)

\* cache.get(key): the stored value while the entry has not expired, else None
cache_get(key) ==
    IF key \in DOMAIN cache /\ now < cache[key].expires THEN cache[key].value ELSE NONE

\* cache.set(key, value, timeout)
cache_set(key, value, timeout) ==
    [k \in DOMAIN cache \cup {key} |->
        IF k = key THEN [value |-> value, expires |-> now + timeout] ELSE cache[k]]

WithCache(r, c) == [calls |-> r.calls, result |-> r.result, cache |-> c]

\* as get_cached, but only None counts as a miss
get_cached_none_only(self, full_url, o) ==
    LET key == CacheKey(self, full_url)
        cached == cache_get(key)
    IN IF cached = NONE
       THEN LET resp == get(self, full_url, NoKwargs, o) IN
            IF resp.result.raised THEN WithCache(resp, cache)
            ELSE WithCache(resp, cache_set(key, resp.result.value, TTL))
       ELSE WithCache(NoCall(Return(cached)), cache)

\* as get_cached, but the response is stored for half the time
get_cached_short_ttl(self, full_url, o) ==
    LET key == CacheKey(self, full_url)
        cached == cache_get(key)
    IN IF ~Truthy(cached)
       THEN LET resp == get(self, full_url, NoKwargs, o) IN
            IF resp.result.raised THEN WithCache(resp, cache)
            ELSE WithCache(resp, cache_set(key, resp.result.value, TTL \div 2))
       ELSE WithCache(NoCall(Return(cached)), cache)

\* as get_cached, but a failed GET is remembered as an empty response
get_cached_store_failure(self, full_url, o) ==
    LET key == CacheKey(self, full_url)
        cached == cache_get(key)
    IN IF ~Truthy(cached)
       THEN LET resp == get(self, full_url, NoKwargs, o) IN
            IF resp.result.raised THEN WithCache(resp, cache_set(key, <<>>, TTL))
            ELSE WithCache(resp, cache_set(key, resp.result.value, TTL))
       ELSE WithCache(NoCall(Return(cached)), cache)

get_cached(self, full_url, o) ==
    LET key == CacheKey(self, full_url)
        cached == cache_get(key)
    IN IF ~Truthy(cached)
       THEN LET resp == get(self, full_url, NoKwargs, o) IN
            IF resp.result.raised THEN WithCache(resp, cache)
            ELSE WithCache(resp, cache_set(key, resp.result.value, TTL))
       ELSE WithCache(NoCall(Return(cached)), cache)

get_valid_statuses(self) == NoCall(Return(<<>>))

get_projects_list(self) == NoCall(Return(<<>>))

get_create_meta(self, project, o) ==
    LET params == IF project # NONE
                  THEN [k \in {"expand", "projectIds"} |->
                            IF k = "expand" THEN <<"projects.issuetypes.fields">>
                            ELSE project]
                  ELSE [k \in {"expand"} |-> <<"projects.issuetypes.fields">>]
    IN get(self, META_URL, Kwargs(FALSE, Unsigned, params, NoData, FALSE), o)

get_priorities(self, o) == get_cached(self, PRIORITIES_URL, o)

get_versions(self, project, o) == get_cached(self, VERSIONS_URL(project), o)

AsciiLetters == {"A", "B", "C", "a", "b", "z"}
Digits == {"0", "1", "2", "3"}

AllIn(s, i, j, S) == \A k \in i..j : s[k] \in S

\* re.search(r'^[A-Za-z]+-\d+$', q): '^' is the start of the string; '$' is
\* the end of the string or the position before a newline that ends it
re_search_issue_id(q) ==
    \E h \in 2..Len(q) :
        /\ q[h] = "-"
        /\ AllIn(q, 1, h - 1, AsciiLetters)
        /\ \E e \in (h + 1)..Len(q) :
              /\ AllIn(q, h + 1, e, Digits)
              /\ \/ e = Len(q)
                 \/ e = Len(q) - 1 /\ q[Len(q)] = "\n"

RECURSIVE replace_quote(_)
\* q.replace('"', '\\"')
replace_quote(q) ==
    IF q = <<>> THEN <<>>
    ELSE (IF Head(q) = "\"" THEN <<"\\", "\"">> ELSE <<Head(q)>>) \o replace_quote(Tail(q))

search_issues(self, q, o) ==
    LET jql == IF re_search_issue_id(q)
               THEN <<"id=", "\"">> \o replace_quote(q) \o <<"\"">>
               ELSE <<"text ~ ", "\"">> \o replace_quote(q) \o <<"\"">>
    IN get(self, SEARCH_URL,
           Kwargs(FALSE, Unsigned, [k \in {"jql"} |-> jql], NoData, FALSE), o)

get_issue(self, issue_id, o) == get(self, ISSUE_URL(issue_id), NoKwargs, o)

----------------------------------------------------------------------------
(* Inputs *)

Cred1 ==
    [consumer_key |-> <<"ck">>, private_key |-> <<"pem">>,
     access_token |-> <<"at1">>, access_token_secret |-> <<"ats1">>]
Cred2 ==
    [consumer_key |-> <<"ck">>, private_key |-> <<"pem">>,
     access_token |-> <<"at2">>, access_token_secret |-> <<"ats2">>]
CredIncomplete ==
    [consumer_key |-> <<"ck">>, private_key |-> <<"pem">>, access_token |-> <<"at1">>]

IdentityStates == {Cred1, Cred2, CredIncomplete}

SetupClient ==
    JiraServerSetupClient("https://jira.example.com", <<"ck">>, <<"pem">>, TRUE)

Verifiers == {NONE, <<>>, <<"verif">>, <<"verif2">>}
ExternalIds == {"ext-1", "ext-2"}
RequestTokens == {dict(parse_qsl(t)) : t \in TextResponses}
Projects == {<<"42">>}
IssueIds == {<<"ABC-123">>}
CallerAuths == {Unsigned, OAuth1(<<"other-ck">>, <<"other-pem">>, NONE, NONE, NONE)}

QueryChars == {"A", "1", "-", "\"", "\\", "\n"}
Queries == UNION {[1..n -> QueryChars] : n \in 0..MaxQueryLen}
SampleQueries == {<<"A", "-", "1">>, <<"A", " ", "\"", "1">>}

Procs == {"p1", "p2"}

----------------------------------------------------------------------------
(* State *)

NoArgs == [none |-> TRUE]

\* the credentials the identity store holds for the caller at the call
IdentityAtCall(who) == IF who \in Installations THEN default_identity[who] ELSE NoArgs

\* the state a call ran in: the caller's stored credentials; for a cached
\* read also the clock, the cache store and the history
PreCall(who) == [identity |-> IdentityAtCall(who)]
PreCached(who) ==
    [identity |-> IdentityAtCall(who), now |-> now, cache |-> cache, hist |-> hist]

InitLast ==
    [op |-> "init", who |-> "-", args |-> NoArgs, calls |-> <<>>,
     result |-> Return(NONE), pre |-> [none |-> TRUE]]

Init ==
    /\ now = 0
    /\ cache = [k \in {} |-> [value |-> NONE, expires |-> 0]]
    /\ default_identity = [i \in Installations |-> Cred1]
    /\ hist = [k \in {} |-> [value |-> NONE, at |-> 0]]
    /\ last = InitLast
    /\ query = <<>>
    /\ pc = [p \in Procs |-> "idle"]
    /\ cached_result = [p \in Procs |-> NONE]
    /\ returned = [p \in Procs |-> Return(NONE)]

\* a client call that leaves the cache store alone
Called(op, who, args, r) ==
    /\ last' = [op |-> op, who |-> who, args |-> args, calls |-> r.calls,
                result |-> r.result, pre |-> PreCall(who)]
    /\ UNCHANGED <<now, cache, default_identity, hist, query, pc, cached_result, returned>>

\* a client call that goes through get_cached; hist remembers the response
\* that the call fetched and stored
CalledCached(op, who, args, full_url, r) ==
    /\ last' = [op |-> op, who |-> who, args |-> args, calls |-> r.calls,
                result |-> r.result, pre |-> PreCached(who)]
    /\ cache' = r.cache
    /\ hist' = IF r.calls # <<>> /\ ~r.result.raised
               THEN LET k == <<full_url, JiraServerClient(who).base_url>> IN
                    [h \in DOMAIN hist \cup {k} |->
                        IF h = k THEN [value |-> r.result.value, at |-> now]
                        ELSE hist[h]]
               ELSE hist
    /\ UNCHANGED <<now, default_identity, query, pc, cached_result, returned>>

----------------------------------------------------------------------------
(* Actions: the environment *)

\* the cache store's clock advances
Tick ==
    /\ now + TickStep <= MaxTime
    /\ now' = now + TickStep
    /\ UNCHANGED <<cache, default_identity, hist, last, query, pc, cached_result, returned>>

\* the external identity store rewrites an installation's credentials
RotateCredentials(i, d) ==
    /\ default_identity[i] # d
    /\ default_identity' = [default_identity EXCEPT ![i] = d]
    /\ UNCHANGED <<now, cache, hist, last, query, pc, cached_result, returned>>

----------------------------------------------------------------------------
(* Actions: JiraServerSetupClient *)

GetRequestToken(o) ==
    Called("get_request_token", "setup", [o |-> o], get_request_token(SetupClient, o))

GetAuthorizeUrl(request_token) ==
    Called("get_authorize_url", "setup", [request_token |-> request_token],
           get_authorize_url(SetupClient, request_token))

GetAccessToken(request_token, verifier, o) ==
    Called("get_access_token", "setup",
           [request_token |-> request_token, verifier |-> verifier, o |-> o],
           get_access_token(SetupClient, request_token, verifier, o))

CreateIssueWebhook(external_id, credentials, o) ==
    Called("create_issue_webhook", "setup",
           [external_id |-> external_id, credentials |-> credentials, o |-> o],
           create_issue_webhook(SetupClient, external_id, "s3cret", credentials, o))

----------------------------------------------------------------------------
(* Actions: JiraServerClient *)

GetPriorities(i, o) ==
    CalledCached("get_priorities", i, [full_url |-> PRIORITIES_URL, o |-> o],
                 PRIORITIES_URL, get_priorities(JiraServerClient(i), o))

GetVersions(i, project, o) ==
    CalledCached("get_versions", i, [full_url |-> VERSIONS_URL(project), o |-> o],
                 VERSIONS_URL(project), get_versions(JiraServerClient(i), project, o))

GetCreateMeta(i, project, o) ==
    Called("get_create_meta", i, [project |-> project, o |-> o],
           get_create_meta(JiraServerClient(i), project, o))

SearchIssues(i, q, o) ==
    Called("search_issues", i, [query |-> q, o |-> o],
           search_issues(JiraServerClient(i), q, o))

GetIssue(i, issue_id, o) ==
    Called("get_issue", i, [issue_id |-> issue_id, o |-> o],
           get_issue(JiraServerClient(i), issue_id, o))

GetValidStatuses(i) ==
    Called("get_valid_statuses", i, NoArgs, get_valid_statuses(JiraServerClient(i)))

GetProjectsList(i) ==
    Called("get_projects_list", i, NoArgs, get_projects_list(JiraServerClient(i)))

\* a caller of the inherited get that passes its own auth
GetWithAuth(i, auth, o) ==
    Called("get", i, [auth |-> auth, o |-> o],
           get(JiraServerClient(i), META_URL,
               Kwargs(TRUE, auth, NoParams, NoData, FALSE), o))

----------------------------------------------------------------------------
(* Specifications.  Each one runs the clients in an environment chosen to  *)
(* exercise one group of operations.                                       *)

SetupCalls ==
    \/ \E o \in TextOutcomes : GetRequestToken(o)
    \/ \E t \in RequestTokens : GetAuthorizeUrl(t)
    \/ \E t \in RequestTokens, v \in Verifiers, o \in TextOutcomes : GetAccessToken(t, v, o)
    \/ \E x \in ExternalIds, d \in IdentityStates, o \in JsonOutcomes :
          CreateIssueWebhook(x, d, o)

CachedCalls(I, IV, J) ==
    \/ \E i \in I, o \in J : GetPriorities(i, o)
    \/ \E i \in IV, p \in Projects, o \in J : GetVersions(i, p, o)

UncachedCalls(I, J) ==
    \/ \E i \in I, p \in Projects \cup {NONE}, o \in J : GetCreateMeta(i, p, o)
    \/ \E i \in I, q \in SampleQueries, o \in J : SearchIssues(i, q, o)
    \/ \E i \in I, id \in IssueIds, o \in J : GetIssue(i, id, o)
    \/ \E i \in I : GetValidStatuses(i)
    \/ \E i \in I : GetProjectsList(i)
    \/ \E i \in I, a \in CallerAuths, o \in J : GetWithAuth(i, a, o)

\* Spec: every operation of both clients, one call at a time, over a server
\* that answers with a non-empty response or fails
SpecOutcomes == {OkJson(<<>>), OkJson(<<"r1">>)} \cup {Failed(e) : e \in TransportErrors}

Next ==
    \/ Tick
    \/ SetupCalls
    \/ CachedCalls({"A"}, {"A"}, SpecOutcomes)
    \/ UncachedCalls({"A"}, SpecOutcomes)

Spec == Init /\ [][Next]_vars

\* SpecSetup: the OAuth1 handshake and the webhook registration
NextSetup == SetupCalls

SpecSetup == Init /\ [][NextSetup]_vars

\* SpecCache: the cached reads, over time and over any server response; the
\* installations' identities are complete or not, as the store holds them
IdentityConfigs ==
    {[i \in Installations |-> Cred1],
     [i \in Installations |-> IF i = "B" THEN CredIncomplete ELSE Cred1]}

InitCache ==
    /\ now = 0
    /\ cache = [k \in {} |-> [value |-> NONE, expires |-> 0]]
    /\ default_identity \in IdentityConfigs
    /\ hist = [k \in {} |-> [value |-> NONE, at |-> 0]]
    /\ last = InitLast
    /\ query = <<>>
    /\ pc = [p \in Procs |-> "idle"]
    /\ cached_result = [p \in Procs |-> NONE]
    /\ returned = [p \in Procs |-> Return(NONE)]

CacheOutcomes == {OkJson(j) : j \in JsonResponses} \cup {Failed("ApiError(503)")}

NextCache ==
    \/ Tick
    \/ CachedCalls(Installations, {"A", "B"}, CacheOutcomes)

SpecCache == InitCache /\ [][NextCache]_vars

\* SpecSign: the authenticated client's calls while the identity store
\* rewrites the credentials
SignOutcomes == {OkJson(<<"r1">>), Failed("ApiError(503)")}

NextSign ==
    \/ \E i \in {"A", "B"}, d \in IdentityStates : RotateCredentials(i, d)
    \/ CachedCalls({"A", "B"}, {"A", "B"}, SignOutcomes)
    \/ UncachedCalls({"A", "B"}, SignOutcomes)

SpecSign == Init /\ [][NextSign]_vars

\* SpecSearch: search_issues applied to every query string over QueryChars
\* of at most MaxQueryLen characters
SearchOutcomes == {OkJson(<<"r1">>), Failed("ApiError(503)")}

InitSearch ==
    /\ now = 0
    /\ cache = [k \in {} |-> [value |-> NONE, expires |-> 0]]
    /\ default_identity = [i \in Installations |-> Cred1]
    /\ hist = [k \in {} |-> [value |-> NONE, at |-> 0]]
    /\ last = InitLast
    /\ query \in Queries
    /\ pc = [p \in Procs |-> "idle"]
    /\ cached_result = [p \in Procs |-> NONE]
    /\ returned = [p \in Procs |-> Return(NONE)]

NextSearch == \E o \in SearchOutcomes : SearchIssues("A", query, o)

SpecSearch == InitSearch /\ [][NextSearch]_vars

----------------------------------------------------------------------------
(* Concurrent callers of get_cached: the method's three steps, cache.get,  *)
(* self.get and cache.set, interleave between callers.  last keeps, for    *)
(* the run, the responses the server gave and the writes in the order they *)
(* landed.                                                                 *)

RaceInstallation == [p \in Procs |-> IF p = "p1" THEN "A" ELSE "B"]
RaceClient(p) == JiraServerClient(RaceInstallation[p])
RaceUrl == PRIORITIES_URL
RaceKey(p) == CacheKey(RaceClient(p), RaceUrl)

InitRace ==
    /\ now = 0
    /\ cache = [k \in {} |-> [value |-> NONE, expires |-> 0]]
    /\ default_identity = [i \in Installations |-> Cred1]
    /\ hist = [k \in {} |-> [value |-> NONE, at |-> 0]]
    /\ last = [op |-> "race", who |-> "-", fetched |-> {}, writes |-> <<>>]
    /\ query = <<>>
    /\ pc = [p \in Procs |-> "cache_get"]
    /\ cached_result = [p \in Procs |-> NONE]
    /\ returned = [p \in Procs |-> Return(NONE)]

\* cached_result = cache.get(key); a truthy value is returned at once
RaceCacheGet(p) ==
    /\ pc[p] = "cache_get"
    /\ LET cached == cache_get(RaceKey(p)) IN
       /\ cached_result' = [cached_result EXCEPT ![p] = cached]
       /\ IF ~Truthy(cached)
          THEN pc' = [pc EXCEPT ![p] = "get"] /\ UNCHANGED returned
          ELSE /\ pc' = [pc EXCEPT ![p] = "done"]
               /\ returned' = [returned EXCEPT ![p] = Return(cached)]
    /\ UNCHANGED <<now, cache, default_identity, hist, last, query>>

\* cached_result = self.get(full_url); the transport's error ends the call
RaceGet(p, o) ==
    /\ pc[p] = "get"
    /\ LET resp == get(RaceClient(p), RaceUrl, NoKwargs, o) IN
       IF resp.result.raised
       THEN /\ pc' = [pc EXCEPT ![p] = "done"]
            /\ returned' = [returned EXCEPT ![p] = resp.result]
            /\ UNCHANGED <<cached_result, last>>
       ELSE /\ pc' = [pc EXCEPT ![p] = "cache_set"]
            /\ cached_result' = [cached_result EXCEPT ![p] = resp.result.value]
            /\ last' = [last EXCEPT !.fetched = @ \cup {resp.result.value}]
            /\ UNCHANGED returned
    /\ UNCHANGED <<now, cache, default_identity, hist, query>>

\* as RaceCacheSet, but an entry that is already there is kept (cache.add)
RaceCacheSet_add(p) ==
    /\ pc[p] = "cache_set"
    /\ cache' = IF cache_get(RaceKey(p)) # NONE THEN cache
                ELSE cache_set(RaceKey(p), cached_result[p], TTL)
    /\ last' = [last EXCEPT !.writes = Append(@, [by |-> p, value |-> cached_result[p]])]
    /\ returned' = [returned EXCEPT ![p] = Return(cached_result[p])]
    /\ pc' = [pc EXCEPT ![p] = "done"]
    /\ UNCHANGED <<now, default_identity, hist, query, cached_result>>

\* cache.set(key, cached_result, 60); return cached_result
RaceCacheSet(p) ==
    /\ pc[p] = "cache_set"
    /\ cache' = cache_set(RaceKey(p), cached_result[p], TTL)
    /\ last' = [last EXCEPT !.writes = Append(@, [by |-> p, value |-> cached_result[p]])]
    /\ returned' = [returned EXCEPT ![p] = Return(cached_result[p])]
    /\ pc' = [pc EXCEPT ![p] = "done"]
    /\ UNCHANGED <<now, default_identity, hist, query, cached_result>>

NextRace ==
    \/ Tick
    \/ \E p \in Procs : RaceCacheGet(p)
    \/ \E p \in Procs, o \in CacheOutcomes : RaceGet(p, o)
    \/ \E p \in Procs : RaceCacheSet(p)

SpecRace == InitRace /\ [][NextRace]_vars

----------------------------------------------------------------------------
(* Properties.  last is the call the property speaks of; last.pre is the   *)
(* state it ran in.                                                        *)

Complete(credentials) == CredFields \subseteq DOMAIN credentials

Signed(auth) ==
    /\ auth.client_key # NONE
    /\ auth.rsa_key # NONE
    /\ auth.signature_method = "RSA-SHA1"
    /\ auth.signature_type = "auth_header"

\* the mapping each response body of TextResponses decodes to
UrlDecoded(text) ==
    CASE text = <<"oauth_token", "=", "abc", "&", "oauth_token_secret", "=", "xyz">> ->
            [k \in {<<"oauth_token">>, <<"oauth_token_secret">>} |->
                IF k = <<"oauth_token">> THEN <<"abc">> ELSE <<"xyz">>]
      [] text = <<"oauth_token", "=", "abc", "&", "oauth_token_secret", "=">> ->
            [k \in {<<"oauth_token">>} |-> <<"abc">>]
      [] text = <<"oauth_token", "=", "old", ";", "oauth_token_secret", "=", "xyz",
                  "&", "oauth_token", "=", "abc">> ->
            [k \in {<<"oauth_token">>, <<"oauth_token_secret">>} |->
                IF k = <<"oauth_token">> THEN <<"abc">> ELSE <<"xyz">>]
      [] text = <<"oauth_problem", "=", "token_rejected", "&", "junk">> ->
            [k \in {<<"oauth_problem">>} |-> <<"token_rejected">>]

IsRequestToken(t) == {<<"oauth_token">>, <<"oauth_token_secret">>} \subseteq DOMAIN t

\* C1: get_access_token with a None or empty verifier fails with the ApiError
\* and has issued no network call; with a non-empty verifier (and a request
\* token holding its token and secret) it issues exactly one signed POST to
\* {base_url}/plugins/servlet/oauth/access-token, and what it returns from the
\* transport's response is the mapping decoded from the response body.
C1_GetAccessToken ==
    last.op = "get_access_token" =>
        LET a == last.args IN
        /\ a.verifier \in {NONE, <<>>} =>
              /\ last.calls = <<>>
              /\ last.result = Raise("ApiError('Missing OAuth token verifier')")
        /\ (a.verifier \notin {NONE, <<>>} /\ IsRequestToken(a.request_token)) =>
              /\ Len(last.calls) = 1
              /\ last.calls[1].method = "POST"
              /\ last.calls[1].url =
                     <<"https://jira.example.com", "/plugins/servlet/oauth/access-token">>
              /\ Signed(last.calls[1].auth)
              /\ a.o.ok => last.result = Return(UrlDecoded(a.o.text))

C1_Witness ==
    /\ last.op = "get_access_token"
    /\ last.args.verifier = <<"verif">>
    /\ Len(last.calls) = 1
    /\ last.args.o = OkText(<<"oauth_token", "=", "abc", "&", "oauth_token_secret", "=", "xyz">>)
    /\ last.result.value[<<"oauth_token_secret">>] = <<"xyz">>

\* C9: every call the setup client issues is signed, each step with the
\* credentials of its stage: get_request_token with the consumer key and
\* private key only; get_access_token with the request token's token and
\* secret and the verifier; create_issue_webhook with the access token and
\* secret of its credentials argument.  An auth the method passed to post is
\* the auth of the call.
C9_SetupSigning ==
    last.who = "setup" =>
        \A n \in DOMAIN last.calls :
            LET auth == last.calls[n].auth
                a == last.args
            IN /\ Signed(auth)
               /\ last.op = "get_request_token" =>
                     auth = OAuth1(<<"ck">>, <<"pem">>, NONE, NONE, NONE)
               /\ last.op = "get_access_token" =>
                     auth = OAuth1(<<"ck">>, <<"pem">>,
                                   a.request_token[<<"oauth_token">>],
                                   a.request_token[<<"oauth_token_secret">>],
                                   a.verifier)
               /\ last.op = "create_issue_webhook" =>
                     auth = OAuth1(a.credentials.consumer_key, a.credentials.private_key,
                                   a.credentials.access_token,
                                   a.credentials.access_token_secret, NONE)

C9_Witness ==
    /\ last.op = "create_issue_webhook"
    /\ Len(last.calls) = 1
    /\ last.calls[1].auth.resource_owner_key = <<"at2">>
    /\ last.calls[1].url = <<"https://jira.example.com", "/rest/webhooks/1.0/webhook">>

\* C3: every request the authenticated client issues without an auth of the
\* caller's is signed with the four credentials the identity holds at the
\* moment of the call (and none is issued when the identity lacks one).
C3_CurrentCredentials ==
    (last.who \in Installations /\ last.op # "get") =>
        \A n \in DOMAIN last.calls :
            /\ Complete(last.pre.identity)
            /\ last.calls[n].auth =
                OAuth1(last.pre.identity.consumer_key, last.pre.identity.private_key,
                       last.pre.identity.access_token,
                       last.pre.identity.access_token_secret, NONE)

C3_Witness ==
    /\ last.who \in Installations
    /\ last.op = "get_issue"
    /\ Len(last.calls) = 1
    /\ last.pre.identity.access_token = <<"at2">>
    /\ last.calls[1].auth.resource_owner_key = <<"at2">>

IsCachedRead == last.op \in {"get_priorities", "get_versions"}

\* C7: when the transport raises during a call, the call has issued that one
\* request and no other, the caller gets the transport's error, and after a
\* cached read the cache store is as it was before the call and still holds
\* no live truthy entry for the key, so that the next read fetches again.
C7_ErrorsPropagate ==
    (last.calls # <<>> /\ ~last.args.o.ok) =>
        /\ Len(last.calls) = 1
        /\ last.result = Raise(last.args.o.error)
        /\ IsCachedRead =>
              LET key == <<"sentry-jira-server:", "md5(">> \o last.args.full_url
                             \o <<":", InstallationMetadata[last.who].base_url, ")">>
              IN /\ cache = last.pre.cache
                 /\ hist = last.pre.hist
                 /\ ~(/\ key \in DOMAIN cache
                      /\ now < cache[key].expires
                      /\ cache[key].value \notin {NONE, <<>>})

C7_Witness ==
    /\ last.op = "get_priorities"
    /\ Len(last.calls) = 1
    /\ last.result = Raise("ApiUnauthorized(401)")
    /\ now < MaxTime

\* the (full_url, base_url) pair of a cached read
ReadPair == <<last.args.full_url, InstallationMetadata[last.who].base_url>>

Stored == ReadPair \in DOMAIN last.pre.hist
StoredValue == last.pre.hist[ReadPair].value
StoredAt == last.pre.hist[ReadPair].at

\* C2 as stated: for any server response, the first get_cached call issues
\* exactly one GET, a second call within the 60 seconds is a hit that issues
\* no GET and returns the first call's value, and a call after the 60
\* seconds issues a fresh GET.
C2_AnyResponse ==
    (IsCachedRead /\ Complete(last.pre.identity)) =>
        /\ ~Stored => Len(last.calls) = 1 /\ last.calls[1].method = "GET"
        /\ (Stored /\ last.pre.now < StoredAt + 60) =>
              last.calls = <<>> /\ last.result = Return(StoredValue)
        /\ (Stored /\ last.pre.now > StoredAt + 60) =>
              Len(last.calls) = 1 /\ last.calls[1].method = "GET"

\* C2, amended: the same for any server response that is truthy (not empty).
C2_TruthyResponse ==
    (IsCachedRead /\ Complete(last.pre.identity)) =>
        /\ ~Stored => Len(last.calls) = 1 /\ last.calls[1].method = "GET"
        /\ (Stored /\ Truthy(StoredValue) /\ last.pre.now < StoredAt + 60) =>
              last.calls = <<>> /\ last.result = Return(StoredValue)
        /\ (Stored /\ last.pre.now > StoredAt + 60) =>
              Len(last.calls) = 1 /\ last.calls[1].method = "GET"

C2_Witness ==
    /\ IsCachedRead
    /\ Complete(last.pre.identity)
    /\ Stored
    /\ StoredValue = <<"r2">>
    /\ last.pre.now > StoredAt
    /\ last.pre.now < StoredAt + 60
    /\ last.calls = <<>>
    /\ last.result = Return(<<"r2">>)

\* C6: a get_cached call that finds no entry or an entry with a falsy (empty)
\* value issues a new GET, and the response of that GET is stored under the
\* key with a fresh 60 seconds to live.
C6_FalsyIsMiss ==
    (IsCachedRead /\ Complete(last.pre.identity)
       /\ (~Stored \/ (last.pre.now < StoredAt + 60 /\ StoredValue = <<>>))) =>
        /\ Len(last.calls) = 1
        /\ last.calls[1].method = "GET"
        /\ last.args.o.ok =>
              LET key == <<"sentry-jira-server:", "md5(">> \o ReadPair[1]
                             \o <<":", ReadPair[2], ")">>
              IN /\ key \in DOMAIN cache
                 /\ cache[key] = [value |-> last.args.o.json, expires |-> last.pre.now + 60]

C6_Witness ==
    /\ IsCachedRead
    /\ Stored
    /\ StoredValue = <<>>
    /\ last.pre.now > StoredAt
    /\ last.pre.now < StoredAt + 60
    /\ Len(last.calls) = 1
    /\ last.result = Return(<<>>)

\* C10: a cached read by any installation on the same base_url, made within
\* the 60 seconds after a truthy response for the URL was stored, returns
\* that response and issues no network call, whatever credentials the
\* reader's identity holds, complete or not.
C10_SharedAcrossInstallations ==
    (IsCachedRead /\ Stored /\ Truthy(StoredValue) /\ last.pre.now < StoredAt + 60) =>
        /\ last.calls = <<>>
        /\ last.result = Return(StoredValue)

C10_Witness ==
    /\ last.op = "get_versions"
    /\ last.who = "B"
    /\ ~Complete(last.pre.identity)
    /\ Stored
    /\ last.calls = <<>>
    /\ last.result = Return(<<"r1">>)

----------------------------------------------------------------------------
(* search_issues *)

\* the whole of q is letters, a hyphen, digits
IsIssueKey(q) ==
    \E h \in 2..(Len(q) - 1) :
        /\ q[h] = "-"
        /\ \A k \in 1..(h - 1) : q[k] \in AsciiLetters
        /\ \A k \in (h + 1)..Len(q) : q[k] \in Digits

RECURSIVE QuotesEscaped(_)
\* q with a backslash put before each double quote
QuotesEscaped(q) ==
    IF q = <<>> THEN <<>>
    ELSE IF Head(q) = "\"" THEN <<"\\", "\"">> \o QuotesEscaped(Tail(q))
    ELSE <<Head(q)>> \o QuotesEscaped(Tail(q))

\* C4: search_issues issues exactly one GET to the search endpoint, whose JQL
\* is id="<query>" exactly when the whole query is letters, a hyphen, digits,
\* and text ~ "<query>" (quotes escaped) for every other query.
C4_Classification ==
    last.op = "search_issues" =>
        LET q == last.args.query IN
        /\ Len(last.calls) = 1
        /\ last.calls[1].method = "GET"
        /\ last.calls[1].url = <<"https://jira.example.com", "/rest/api/2/search/">>
        /\ last.calls[1].params =
              [k \in {"jql"} |->
                  IF IsIssueKey(q) THEN <<"id=", "\"">> \o q \o <<"\"">>
                  ELSE <<"text ~ ", "\"">> \o QuotesEscaped(q) \o <<"\"">>]

RECURSIVE ClosingQuote(_, _)
\* reading s from index i with backslash as the escape character: the index
\* of the double quote that closes the literal, or 0 when none does
ClosingQuote(s, i) ==
    IF i > Len(s) THEN 0
    ELSE IF s[i] = "\\" THEN ClosingQuote(s, i + 2)
    ELSE IF s[i] = "\"" THEN i
    ELSE ClosingQuote(s, i + 1)

\* C5: in the JQL of every query, the string literal opened after id= or
\* text ~ is closed by the last character of the JQL and by nothing before it.
C5_LiteralClosedAtEnd ==
    (last.op = "search_issues" /\ last.calls # <<>>) =>
        LET jql == last.calls[1].params["jql"] IN
        /\ jql[2] = "\""
        /\ ClosingQuote(jql, 3) = Len(jql)

----------------------------------------------------------------------------
(* concurrent get_cached *)

AllDone == \A p \in Procs : pc[p] = "done"

Wrote(p) == \E n \in DOMAIN last.writes : last.writes[n].by = p

\* C8 as stated: in every interleaving each caller returns a response fetched
\* for the URL, and the entry left after all writes is the same whichever
\* order the writes land in: it is the response of every caller that wrote.
C8_OrderIndependent ==
    (last.op = "race" /\ AllDone) =>
        /\ \A p \in Procs : ~returned[p].raised => returned[p].value \in last.fetched
        /\ \A p \in Procs : Wrote(p) => cache[RaceKey(p)].value = returned[p].value

\* C8, amended: each caller that returns, returns a response fetched for the
\* URL, and the entry left after all writes is the response of the caller
\* whose write landed last.
C8_LastWriteWins ==
    (last.op = "race" /\ AllDone) =>
        /\ \A p \in Procs : ~returned[p].raised => returned[p].value \in last.fetched
        /\ last.writes # <<>> =>
              LET w == last.writes[Len(last.writes)] IN
              /\ cache[RaceKey(w.by)].value = returned[w.by].value
              /\ cache[RaceKey(w.by)].value = w.value

C8_Witness ==
    /\ last.op = "race"
    /\ AllDone
    /\ Len(last.writes) = 2
    /\ last.writes[1].by = "p2"
    /\ returned["p1"] = Return(<<"r1">>)
    /\ returned["p2"] = Return(<<"r2">>)
    /\ cache[RaceKey("p1")].value = <<"r1">>

====
